---- MODULE Spec2Model ----
(***************************************************************************)
(* A model of the Adafruit MPRLS pressure-sensor driver                    *)
(* (Adafruit_MPRLS.h, Adafruit_MPRLS.cpp).                                 *)
(*                                                                         *)
(* The state is one Adafruit_MPRLS object, the transport handle it owns,   *)
(* the millisecond clock, and the position of the one call in progress.    *)
(* begin() and readStatus() are one step each.  readPressure() is a        *)
(* sequence of steps (command, polls, timeout checks, frame read) because  *)
(* the clock advances between the steps of its wait loop.                  *)
(*                                                                         *)
(* 32-bit unsigned values are pairs <<hi, lo>> of 16-bit halves: TLC's     *)
(* integers are narrower than the products the driver computes.            *)
(* A pressure is not rounded: it is kept as the exact quotient             *)
(* (num / den + off) * K of the values the code converts to float.  The    *)
(* constructor's counts are rounded as the build's floating point rounds   *)
(* them.  The heap holds the Adafruit_I2CDevice objects begin() makes.     *)
(***************************************************************************)
EXTENDS Integers, Sequences, FiniteSets, TLC

(* ---------------------------------------------------------------------- *)
(* Adafruit_MPRLS.h                                                        *)
(* ---------------------------------------------------------------------- *)
MPRLS_READ_TIMEOUT == 20
MPRLS_STATUS_POWERED == 64
MPRLS_STATUS_BUSY == 32
MPRLS_STATUS_FAILED == 4
MPRLS_STATUS_MATHSAT == 1
MPRLS_STATUS_MASK == 101
COUNTS_224 == 16777216

(* The wait of one read is followed for this many milliseconds.            *)
MaxElapsed == 22

(* ---------------------------------------------------------------------- *)
(* uint8_t and uint32_t arithmetic                                         *)
(* ---------------------------------------------------------------------- *)
Half == 256 * 256

(* a & b on unsigned values *)
RECURSIVE BitAnd(_, _)
BitAnd(a, b) ==
    IF a = 0 \/ b = 0 THEN 0
    ELSE (a % 2) * (b % 2) + 2 * BitAnd(a \div 2, b \div 2)

(* the uint32_t holding n, for -2^31 < n < 2^31 (conversion is modulo 2^32) *)
ToU32(n) == << (n \div Half) % Half, n % Half >>

(* a - b in uint32_t *)
U32Sub(a, b) ==
    LET lo == a[2] - b[2]
        hi == a[1] - b[1] - (IF lo < 0 THEN 1 ELSE 0)
    IN  << hi % Half, lo % Half >>

(* a + 1 in uint32_t: the millisecond counter wraps from 2^32-1 to 0 *)
U32Inc(a) ==
    IF a[2] + 1 < Half THEN << a[1], a[2] + 1 >>
    ELSE << (a[1] + 1) % Half, 0 >>

(* a > n in uint32_t, for 0 <= n < 2^16 *)
U32Gt(a, n) == a[1] > 0 \/ a[2] > n

(* the 32-bit product of two 16-bit values *)
Mul16(a, b) ==
    LET m1 == (a \div 256) * b
        m0 == (a % 256) * b
        s  == (m1 % 256) * 256 + m0
    IN  << m1 \div 256 + s \div Half, s % Half >>

(* a * b in uint32_t *)
U32Mul(a, b) ==
    LET ll == Mul16(a[2], b[2])
        hl == Mul16(a[1], b[2])[2]
        lh == Mul16(a[2], b[1])[2]
    IN  << (ll[1] + hl + lh) % Half, ll[2] >>

(* 0xFFFFFFFF, what readData() returns for a timeout or a reported fault *)
SENTINEL == << 65535, 65535 >>

(* ---------------------------------------------------------------------- *)
(* State                                                                   *)
(* ---------------------------------------------------------------------- *)
VARIABLES
    _reset, _eoc,               \* pin numbers, -1 when not wired
    _PSI_min, _PSI_max,         \* uint16_t
    _OUTPUT_min, _OUTPUT_max,   \* uint32_t counts (below 2^31 here)
    _K,                         \* float, kept as its literal
    int_bits,                   \* width of int on the build: 16 (AVR, whose double
                                \* has 32 bits) or 32 (double has 64 bits)
    curve_args,                 \* the constructor's OUTPUT_min, OUTPUT_max, in tenths of a percent
    lastStatus,                 \* uint8_t, public
    i2c_dev,                    \* "NULL", or the handle: "begun" or "not_begun"
    handle,                     \* the heap address i2c_dev holds, 0 for NULL
    heap,                       \* the addresses of the Adafruit_I2CDevice objects alive
    bad_delete,                 \* whether a delete was given an address not alive
    pc,                         \* "idle", "poll", "check", "read", "crashed", "destroyed"
    t,                          \* readData(): uint32_t t = millis()
    now,                        \* what millis() returns
    elapsed,                    \* true milliseconds since t was taken
    ops,                        \* collaborator calls made by the current call
    wire,                       \* status byte last received in the current call, -1 if none
    frame,                      \* the 4 bytes the current call read, << >> if none
    freed,                      \* the addresses the current call gave to delete
    ret                         \* what the last call returned

config ==
    << _reset, _eoc, _PSI_min, _PSI_max, _OUTPUT_min, _OUTPUT_max, _K, int_bits,
       curve_args >>
clock == << t, now, elapsed >>
memory == << handle, heap, bad_delete >>
vars ==
    << config, lastStatus, i2c_dev, memory, pc, clock, ops, wire, frame, freed, ret >>

(* ---------------------------------------------------------------------- *)
(* Inputs                                                                  *)
(* ---------------------------------------------------------------------- *)
(* Status bytes the device may send: every combination of the four bits    *)
(* the driver looks at, and two bytes with the four other bits set too.    *)
StatusBytes ==
    { p + b + f + m :
        p \in {0, MPRLS_STATUS_POWERED}, b \in {0, MPRLS_STATUS_BUSY},
        f \in {0, MPRLS_STATUS_FAILED}, m \in {0, MPRLS_STATUS_MATHSAT} }
    \cup { 255 - MPRLS_STATUS_MASK + MPRLS_STATUS_POWERED, 255 }

(* Status bytes a single read outside a conversion may receive: nothing,   *)
(* powered, powered and busy, and two bytes with the four other bits set.  *)
IdleBytes ==
    { 0, MPRLS_STATUS_POWERED, MPRLS_STATUS_POWERED + MPRLS_STATUS_BUSY,
      255 - MPRLS_STATUS_MASK + MPRLS_STATUS_POWERED, 255 }

(* lastStatus has no initializer: what the object's memory may hold *)
InitialStatus == {0, 37, 64, 255}

ResetPins == {-1, 5}
EocPins == {-1, 6}

(* where new may place an Adafruit_I2CDevice *)
Addresses == {1, 2}

(* Constructor arguments PSI_min, PSI_max, OUTPUT_min, OUTPUT_max (in      *)
(* tenths of a percent), K, and the build's int width.                     *)
DefaultCurve == << 0, 25, 100, 900, "68.947572932", 32 >>

(* The defaults, a wide range, a reversed range on both builds, a          *)
(* degenerate curve and another factor.                                    *)
Curves ==
    { DefaultCurve,
      << 0, 1000, 100, 900, "68.947572932", 32 >>,
      << 25, 0, 100, 900, "68.947572932", 32 >>,
      << 25, 0, 100, 900, "68.947572932", 16 >>,
      << 0, 25, 100, 100, "68.947572932", 32 >>,
      << 0, 25, 100, 900, "1.0", 16 >> }

(* The objects constructed: the reset pin plays no part in a read, so it   *)
(* is wired with the default curve only.                                   *)
Setups ==
    { su \in ResetPins \X EocPins \X Curves : su[3] = DefaultCurve \/ su[1] = -1 }

(* millis() at the moment a read starts: just after boot, and ten          *)
(* milliseconds before the counter wraps.                                  *)
StartTimes == { << 0, 0 >>, << 65535, 65526 >> }

(* Raw counts a data frame may carry, around the curve's end points.       *)
RawInputs ==
    { r \in { 0, _OUTPUT_min - 1, _OUTPUT_min, _OUTPUT_min + 1,
              _OUTPUT_max, COUNTS_224 - 1 } :
        r >= 0 /\ r < COUNTS_224 }

(* ---------------------------------------------------------------------- *)
(* Adafruit_MPRLS::Adafruit_MPRLS                                          *)
(* ---------------------------------------------------------------------- *)
(* (uint32_t)((float)COUNTS_224 * (OUTPUT / 100.0) + 0.5), OUTPUT given    *)
(* in tenths of a percent, 0..1000, a whole or a half percent, where       *)
(* double has 64 bits: the quotient, the product and the sum are exact to  *)
(* far less than the distance of the product from a half                   *)
OutputCounts_double(tenths) ==
    (COUNTS_224 \div 1000) * tenths + ((COUNTS_224 % 1000) * tenths + 500) \div 1000

(* n, an odd number of half units in the last place, to the even neighbour *)
TiesToEven(n) == IF ((n - 1) \div 2) % 2 = 0 THEN n - 1 ELSE n + 1

(* The same expression where double has 32 bits, each operation rounded to *)
(* a 24-bit significand, ties to even.  The quotient is M / (S * 2^24)     *)
(* with M in 2^23..2^24 and S the power of two that puts it there; the     *)
(* product by 2^24 is exact; the sum with 0.5 is rounded again when it     *)
(* needs a 25th bit.                                                       *)
OutputCounts_float(tenths) ==
    IF tenths = 0 THEN 0
    ELSE IF tenths >= 1000 THEN COUNTS_224
    ELSE
        LET S == CHOOSE x \in {1, 2, 4, 8, 16, 32, 64, 128, 256, 512} :
                     500 <= tenths * x /\ tenths * x < 1000
            A == tenths * S
            q1 == (A * 1024) \div 125
            r1 == (A * 1024) % 125
            Q == q1 * 2048 + (r1 * 2048) \div 125
            R == (r1 * 2048) % 125
            M == Q + (IF 2 * R > 125 THEN 1 ELSE 0)
            N == M + S \div 2
        IN  IF S = 1
            THEN (IF M % 2 = 0 THEN M ELSE M + 1)
            ELSE (IF N >= COUNTS_224 /\ N % 2 = 1 THEN TiesToEven(N) ELSE N) \div S

OutputCounts(tenths) ==
    IF int_bits = 16 THEN OutputCounts_float(tenths) ELSE OutputCounts_double(tenths)

Adafruit_MPRLS(reset_pin, EOC_pin, PSI_min, PSI_max, OUTPUT_min, OUTPUT_max, K) ==
    /\ _reset = reset_pin
    /\ _eoc = EOC_pin
    /\ _PSI_min = PSI_min
    /\ _PSI_max = PSI_max
    /\ _OUTPUT_min = OutputCounts(OUTPUT_min)
    /\ _OUTPUT_max = OutputCounts(OUTPUT_max)
    /\ _K = K
    /\ curve_args = << OUTPUT_min, OUTPUT_max >>

NoRet == [op |-> "none"]

(* After construction: lastStatus is not initialised by the constructor,   *)
(* i2c_dev is NULL (in-class initialiser).                                 *)
Fresh ==
    /\ lastStatus \in InitialStatus
    /\ i2c_dev = "NULL"
    /\ handle = 0
    /\ heap = {}
    /\ bad_delete = FALSE
    /\ pc = "idle"
    /\ t = << 0, 0 >>
    /\ now = << 0, 0 >>
    /\ elapsed = 0
    /\ ops = << >>
    /\ wire = -1
    /\ frame = << >>
    /\ freed = {}
    /\ ret = NoRet

Init ==
    /\ \E su \in Setups :
          /\ int_bits = su[3][6]
          /\ Adafruit_MPRLS(su[1], su[2], su[3][1], su[3][2], su[3][3], su[3][4], su[3][5])
    /\ Fresh

(* ---------------------------------------------------------------------- *)
(* Adafruit_MPRLS::begin                                                   *)
(* ---------------------------------------------------------------------- *)
(* the reset pulse released at once, without the delay *)
ResetOps_NoHold ==
    IF _reset # -1
    THEN << "pinMode(reset,OUTPUT)", "digitalWrite(reset,HIGH)",
            "digitalWrite(reset,LOW)", "digitalWrite(reset,HIGH)" >>
    ELSE << >>

(* the calls begin() makes for the reset pin *)
ResetOps ==
    IF _reset # -1
    THEN << "pinMode(reset,OUTPUT)", "digitalWrite(reset,HIGH)",
            "digitalWrite(reset,LOW)", "delay(10)", "digitalWrite(reset,HIGH)" >>
    ELSE << >>

(* the calls begin() makes for the end-of-conversion pin *)
EocOps == IF _eoc # -1 THEN << "pinMode(eoc,INPUT)" >> ELSE << >>

(* begin() without "if (i2c_dev) delete i2c_dev;" *)
Deleted_Never == heap

(* the heap after "if (i2c_dev) delete i2c_dev;" *)
Deleted == IF handle # 0 THEN heap \ {handle} ELSE heap

(* "if (i2c_dev) delete i2c_dev; i2c_dev = new Adafruit_I2CDevice(...)":    *)
(* new places the object at any address not in use                         *)
NewDevice ==
    \E a \in Addresses \ Deleted :
        /\ handle' = a
        /\ heap' = Deleted \cup {a}
        /\ bad_delete' = (bad_delete \/ (handle # 0 /\ handle \notin heap))
        /\ freed' = IF handle # 0 THEN {handle} ELSE {}

(* begin() comparing the whole byte with the powered bit, without the mask *)
BeginResult_NoMask(s) == s = MPRLS_STATUS_POWERED

(* begin()'s result for the status byte its probe read returned *)
BeginResult(s) == BitAnd(s, MPRLS_STATUS_MASK) = MPRLS_STATUS_POWERED

(* lastStatus after a begin() whose probe read returned s: not assigned *)
BeginLastStatus(s) == lastStatus

(* begin() going on to the pins and the probe whatever i2c_dev->begin()     *)
(* answered                                                                *)
begin_Unchecked(ok, s) ==
    /\ pc = "idle"
    /\ i2c_dev' = IF ok THEN "begun" ELSE "not_begun"
    /\ ops' = << "i2c_dev->begin" >> \o ResetOps \o EocOps
                 \o << "delay(10)", "read(1)" >>
    /\ wire' = s
    /\ ret' = [op |-> "begin", val |-> ok /\ BeginResult(s)]
    /\ lastStatus' = BeginLastStatus(s)
    /\ NewDevice
    /\ frame' = << >>
    /\ UNCHANGED << config, pc, clock >>

(* the bytes the probe read may receive; none (-1) when it is not reached *)
ProbeBytes(ok) == IF ok THEN IdleBytes ELSE {-1}

(* One begin() call.  ok: whether i2c_dev->begin() finds the device;       *)
(* s: the byte the probe readStatus() receives.                            *)
begin(ok, s) ==
    /\ pc = "idle"
    /\ i2c_dev' = IF ok THEN "begun" ELSE "not_begun"
    /\ IF ~ok
       THEN /\ ops' = << "i2c_dev->begin" >>
            /\ wire' = -1
            /\ ret' = [op |-> "begin", val |-> FALSE]
            /\ UNCHANGED lastStatus
       ELSE /\ ops' = << "i2c_dev->begin" >> \o ResetOps \o EocOps
                        \o << "delay(10)", "read(1)" >>
            /\ wire' = s
            /\ ret' = [op |-> "begin", val |-> BeginResult(s)]
            /\ lastStatus' = BeginLastStatus(s)
    /\ NewDevice
    /\ frame' = << >>
    /\ UNCHANGED << config, pc, clock >>

(* ---------------------------------------------------------------------- *)
(* Adafruit_MPRLS::readStatus                                              *)
(* ---------------------------------------------------------------------- *)
(* lastStatus after a readStatus() call that received s: not assigned *)
ReadStatusLastStatus(s) == lastStatus

(* One public readStatus() call receiving the byte s. *)
readStatus(s) ==
    /\ pc = "idle"
    /\ ops' = << "read(1)" >>
    /\ wire' = s
    /\ ret' = [op |-> "readStatus", val |-> s]
    /\ lastStatus' = ReadStatusLastStatus(s)
    /\ frame' = << >>
    /\ freed' = {}
    /\ UNCHANGED << config, i2c_dev, memory, pc, clock >>

(* A call through i2c_dev while it is NULL is undefined: the build may     *)
(* run on with whatever bytes it finds (the steps above and below) or      *)
(* stop here.                                                              *)
NullDeref ==
    /\ pc = "idle"
    /\ i2c_dev = "NULL"
    /\ pc' = "crashed"
    /\ UNCHANGED << config, lastStatus, i2c_dev, memory, clock, ops, wire, frame, freed, ret >>

(* ---------------------------------------------------------------------- *)
(* Adafruit_MPRLS::readPressure                                            *)
(* ---------------------------------------------------------------------- *)
NAN == [nan |-> TRUE]

(* (_PSI_max - _PSI_min) as the uint32_t operand of the product: the       *)
(* difference of two uint16_t is an int where int has 32 bits and an       *)
(* unsigned int where it has 16.                                           *)
PsiSpan ==
    IF int_bits = 16
    THEN ToU32((_PSI_max - _PSI_min) % Half)
    ELSE ToU32(_PSI_max - _PSI_min)

(* readPressure() without the test for a degenerate curve *)
Pressure_NoDegenerateTest(raw_psi) ==
    IF raw_psi = SENTINEL
    THEN NAN
    ELSE [nan |-> FALSE,
          num |-> U32Mul(U32Sub(raw_psi, ToU32(_OUTPUT_min)), PsiSpan),
          den |-> U32Sub(ToU32(_OUTPUT_max), ToU32(_OUTPUT_min)),
          off |-> _PSI_min,
          K   |-> _K]

(* what readPressure() returns for the value readData() gave it: NAN, or   *)
(* the number (num / den + off) * K                                        *)
Pressure(raw_psi) ==
    IF raw_psi = SENTINEL \/ _OUTPUT_min = _OUTPUT_max
    THEN NAN
    ELSE [nan |-> FALSE,
          num |-> U32Mul(U32Sub(raw_psi, ToU32(_OUTPUT_min)), PsiSpan),
          den |-> U32Sub(ToU32(_OUTPUT_max), ToU32(_OUTPUT_min)),
          off |-> _PSI_min,
          K   |-> _K]

(* readPressure() returns with raw_psi from readData() *)
Return(raw_psi) ==
    /\ ret' = [op |-> "readPressure", raw |-> raw_psi, val |-> Pressure(raw_psi)]
    /\ pc' = "idle"

(* The wait is over: t is not used again and millis() is not called again  *)
(* before the next readData(), which takes a new t.                        *)
WaitOver ==
    /\ t' = << 0, 0 >>
    /\ now' = << 0, 0 >>
    /\ elapsed' = 0

(* ---------------------------------------------------------------------- *)
(* Adafruit_MPRLS::readData                                                *)
(* ---------------------------------------------------------------------- *)
(* the log with one more call; a poll repeated is logged once *)
Logged(e) == IF Len(ops) > 0 /\ ops[Len(ops)] = e THEN ops ELSE Append(ops, e)

(* readPressure() is called: readData() writes the command and takes t. *)
readData_request(start) ==
    /\ pc = "idle"
    /\ ops' = << "write(AA,00,00)" >>
    /\ wire' = -1
    /\ ret' = NoRet
    /\ t' = start
    /\ now' = start
    /\ elapsed' = 0
    /\ pc' = "poll"
    /\ frame' = << >>
    /\ freed' = {}
    /\ UNCHANGED << config, lastStatus, i2c_dev, memory >>

(* the loop condition with an EOC pin: !digitalRead(_eoc) *)
readData_poll_eoc(level) ==
    /\ pc = "poll"
    /\ _eoc # -1
    /\ ops' = Logged("digitalRead(eoc)")
    /\ IF level = 0
       THEN pc' = "check" /\ UNCHANGED clock
       ELSE pc' = "read" /\ WaitOver
    /\ UNCHANGED << config, lastStatus, i2c_dev, memory, wire, frame, freed, ret >>

(* the loop condition testing readStatus() without storing it *)
readData_poll_status_NoStore(s) ==
    /\ pc = "poll"
    /\ _eoc = -1
    /\ ops' = Logged("read(1)")
    /\ wire' = s
    /\ IF BitAnd(s, MPRLS_STATUS_BUSY) # 0
       THEN pc' = "check" /\ UNCHANGED clock
       ELSE pc' = "read" /\ WaitOver
    /\ UNCHANGED << config, lastStatus, i2c_dev, memory, frame, freed, ret >>

(* the loop condition without one: (lastStatus = readStatus()) & BUSY *)
readData_poll_status(s) ==
    /\ pc = "poll"
    /\ _eoc = -1
    /\ ops' = Logged("read(1)")
    /\ wire' = s
    /\ lastStatus' = s
    /\ IF BitAnd(s, MPRLS_STATUS_BUSY) # 0
       THEN pc' = "check" /\ UNCHANGED clock
       ELSE pc' = "read" /\ WaitOver
    /\ UNCHANGED << config, i2c_dev, memory, frame, freed, ret >>

(* the timeout test as millis() > t + MPRLS_READ_TIMEOUT, the deadline     *)
(* not reduced modulo 2^32                                                 *)
TimedOut_Deadline ==
    LET lo == t[2] + MPRLS_READ_TIMEOUT
        deadline == << t[1] + lo \div Half, lo % Half >>
    IN  \/ now[1] > deadline[1]
        \/ now[1] = deadline[1] /\ now[2] > deadline[2]

(* the timeout test with >= for > *)
TimedOut_AtLimit == U32Gt(U32Sub(now, t), MPRLS_READ_TIMEOUT - 1)

(* the loop body's condition: millis() - t > MPRLS_READ_TIMEOUT *)
TimedOut == U32Gt(U32Sub(now, t), MPRLS_READ_TIMEOUT)

(* the loop body sending the command again on a timeout, and waiting again *)
readData_check_Retry ==
    /\ pc = "check"
    /\ IF TimedOut
       THEN /\ ops' = Append(ops, "write(AA,00,00)")
            /\ pc' = "poll"
            /\ WaitOver
            /\ UNCHANGED ret
       ELSE /\ pc' = "poll"
            /\ UNCHANGED << clock, ret, ops >>
    /\ UNCHANGED << config, lastStatus, i2c_dev, memory, wire, frame, freed >>

(* the loop body, in both loops *)
readData_check ==
    /\ pc = "check"
    /\ IF TimedOut
       THEN Return(SENTINEL) /\ WaitOver
       ELSE /\ pc' = "poll"
            /\ UNCHANGED << clock, ret >>
    /\ UNCHANGED << config, lastStatus, i2c_dev, memory, ops, wire, frame, freed >>

(* readData() assembling the count with buffer[3] as the high byte *)
FrameValue_LittleEndian(buffer) ==
    IF BitAnd(buffer[1], MPRLS_STATUS_MATHSAT) # 0 THEN SENTINEL
    ELSE IF BitAnd(buffer[1], MPRLS_STATUS_FAILED) # 0 THEN SENTINEL
    ELSE << buffer[4], buffer[3] * 256 + buffer[2] >>

(* readData() without the test of the integrity bit *)
FrameValue_NoFailedTest(buffer) ==
    IF BitAnd(buffer[1], MPRLS_STATUS_MATHSAT) # 0 THEN SENTINEL
    ELSE << buffer[2], buffer[3] * 256 + buffer[4] >>

(* what readData() returns for the frame buffer[0..3] *)
FrameValue(buffer) ==
    IF BitAnd(buffer[1], MPRLS_STATUS_MATHSAT) # 0 THEN SENTINEL
    ELSE IF BitAnd(buffer[1], MPRLS_STATUS_FAILED) # 0 THEN SENTINEL
    ELSE << buffer[2], buffer[3] * 256 + buffer[4] >>

(* the frame read storing the frame's status byte in lastStatus *)
FrameLastStatus_Byte0(buffer) == buffer[1]

(* lastStatus after the frame read: not assigned *)
FrameLastStatus(buffer) == lastStatus

(* the 4-byte read and what follows it; b0 is the status byte and r the    *)
(* count the three data bytes carry                                        *)
readData_read(b0, r) ==
    LET buffer == << b0, r \div Half, (r \div 256) % 256, r % 256 >>
    IN  /\ pc = "read"
        /\ ops' = Append(ops, "read(4)")
        /\ wire' = b0
        /\ lastStatus' = FrameLastStatus(buffer)
        /\ frame' = buffer
        /\ Return(FrameValue(buffer))
        /\ UNCHANGED << config, i2c_dev, memory, clock, freed >>

(* the millisecond counter advances during the wait *)
Tick ==
    /\ pc \in {"poll", "check"}
    /\ elapsed < MaxElapsed
    /\ now' = U32Inc(now)
    /\ elapsed' = elapsed + 1
    /\ UNCHANGED << config, lastStatus, i2c_dev, memory, pc, t, ops, wire, frame, freed, ret >>

(* ---------------------------------------------------------------------- *)
(* Destruction                                                             *)
(* ---------------------------------------------------------------------- *)
(* The object is destroyed between two calls.  The class declares no       *)
(* destructor: the implicit one makes no call and deletes nothing.  What   *)
(* is recorded of the last call is dropped.                                *)
Destroy ==
    /\ pc = "idle"
    /\ pc' = "destroyed"
    /\ ops' = << >>
    /\ wire' = -1
    /\ frame' = << >>
    /\ freed' = {}
    /\ ret' = NoRet
    /\ UNCHANGED << config, lastStatus, i2c_dev, memory, clock >>

(* ---------------------------------------------------------------------- *)
(* Specification                                                           *)
(* ---------------------------------------------------------------------- *)
Next ==
    \/ \E ok \in BOOLEAN : \E s \in ProbeBytes(ok) : begin(ok, s)
    \/ \E s \in IdleBytes : readStatus(s)
    \/ NullDeref
    \/ \E start \in StartTimes : readData_request(start)
    \/ \E level \in {0, 1} : readData_poll_eoc(level)
    \/ \E s \in StatusBytes : readData_poll_status(s)
    \/ readData_check
    \/ \E b0 \in StatusBytes, r \in RawInputs : readData_read(b0, r)
    \/ Tick
    \/ Destroy

Spec == Init /\ [][Next]_vars

(* begin() alone, its probe read receiving any of the 256 bytes.  begin()   *)
(* reads neither the curve nor lastStatus: the objects are those with the  *)
(* default curve, and lastStatus starts all clear or all set.              *)
begin_Init ==
    /\ Init
    /\ << _PSI_min, _PSI_max, _K, int_bits >> =
          << DefaultCurve[1], DefaultCurve[2], DefaultCurve[5], DefaultCurve[6] >>
    /\ _OUTPUT_max = OutputCounts(DefaultCurve[4])
    /\ lastStatus \in {0, 255}

begin_any ==
    \E ok \in BOOLEAN : \E s \in (IF ok THEN 0..255 ELSE {-1}) : begin(ok, s)

BeginSpec == begin_Init /\ [][begin_any]_vars

(* Construction alone: whole percentages for OUTPUT_min, OUTPUT_max the    *)
(* rest to 100, on both builds; then single status reads, and the          *)
(* destruction.                                                            *)
Percents == { 10 * p : p \in 0..100 }

ctor_Init ==
    /\ \E b \in {16, 32}, lo \in Percents :
          /\ int_bits = b
          /\ Adafruit_MPRLS(-1, -1, DefaultCurve[1], DefaultCurve[2], lo, 1000 - lo,
                            DefaultCurve[5])
    /\ Fresh

ctor_Next ==
    \/ \E s \in IdleBytes : readStatus(s)
    \/ Destroy

CtorSpec == ctor_Init /\ [][ctor_Next]_vars

(* The wait loop is not starved: the caller's thread runs, and the         *)
(* millisecond counter is driven by a hardware timer.                      *)
FairSpec ==
    /\ Spec
    /\ WF_vars(Tick)
    /\ WF_vars(readData_check)
    /\ WF_vars(\E level \in {0, 1} : readData_poll_eoc(level))
    /\ WF_vars(\E s \in StatusBytes : readData_poll_status(s))

(* ---------------------------------------------------------------------- *)
(* Properties                                                              *)
(* ---------------------------------------------------------------------- *)
(* bit m (a power of two) of the byte s is set *)
Bit(s, m) == (s \div m) % 2 = 1

(* the current call made the collaborator call e *)
Did(e) == \E i \in 1..Len(ops) : ops[i] = e

BeginReturned == pc = "idle" /\ ret.op = "begin"
PressureReturned == pc = "idle" /\ ret.op = "readPressure"
(* readData() returned from inside its wait loop *)
ReturnedByTimeout == PressureReturned /\ ~Did("read(4)")
(* readData() went on to the 4-byte read *)
ReturnedAfterFrame == PressureReturned /\ Did("read(4)")

(* C1: when the transport opens, begin() returns true if and only if, in   *)
(* the status byte its probe read returned, the powered bit is set and the *)
(* busy, integrity-failed and math-saturated bits are clear, whatever the  *)
(* other four bits are.                                                    *)
C1_BeginStatusMask ==
    (BeginReturned /\ i2c_dev = "begun") =>
        (ret.val <=> ( /\ Bit(wire, 64)
                       /\ ~Bit(wire, 32)
                       /\ ~Bit(wire, 4)
                       /\ ~Bit(wire, 1) ))

(* begin() returned true for a byte with all four unmasked bits set *)
C1_Witness == BeginReturned /\ i2c_dev = "begun" /\ wire = 218 /\ ret.val

(* C2: readPressure() returns NaN if and only if readData() returned       *)
(* 0xFFFFFFFF or the curve is degenerate (outputMinCounts equal to         *)
(* outputMaxCounts); otherwise it returns a number.                        *)
C2_NanIff ==
    PressureReturned =>
        (ret.val.nan <=> (ret.raw = SENTINEL \/ _OUTPUT_min = _OUTPUT_max))

(* NaN for a good raw count on a degenerate curve *)
C2_Witness ==
    PressureReturned /\ ret.val.nan /\ ret.raw = ToU32(_OUTPUT_min)

(* C3: a wait in which ready is never reported ends, by readData()         *)
(* returning 0xFFFFFFFF from its loop without the 4-byte read.  That       *)
(* return is made only when more than MPRLS_READ_TIMEOUT milliseconds have *)
(* passed since the command, and a not-ready poll made after they have     *)
(* passed is followed by no further poll.                                  *)
C3_Timeout ==
    /\ [][ /\ (pc = "check" /\ pc' = "idle") =>
                /\ elapsed > MPRLS_READ_TIMEOUT
                /\ ret'.op = "readPressure"
                /\ ret'.raw = SENTINEL
                /\ ret'.val.nan
                /\ ~Did("read(4)")'
           /\ (pc = "check" /\ elapsed > MPRLS_READ_TIMEOUT /\ pc' # "check") =>
                pc' = "idle" ]_vars
    /\ (pc \in {"poll", "check"}) ~> (pc \in {"read", "idle"})

(* a read that timed out on an object polling the status byte *)
C3_Witness == ReturnedByTimeout /\ _eoc = -1 /\ ret.raw = SENTINEL

(* C4: once the 4-byte frame is read, a status byte with the               *)
(* math-saturation bit or the integrity-failed bit set makes readData()    *)
(* return 0xFFFFFFFF whatever the data bytes are, with or without an EOC   *)
(* pin, and readPressure() return NaN.                                     *)
C4_FaultGivesSentinel ==
    (ReturnedAfterFrame /\ (Bit(wire, 1) \/ Bit(wire, 4))) =>
        (ret.raw = SENTINEL /\ ret.val.nan)

(* a frame with only the integrity-failed bit set, read after the EOC pin  *)
(* went high                                                               *)
C4_Witness ==
    /\ ReturnedAfterFrame
    /\ _eoc # -1
    /\ wire = 68
    /\ ret.raw = SENTINEL

(* C10: a begin() whose transport does not open returns false having made  *)
(* no pin call, no delay and no status read, and leaves lastStatus as it   *)
(* was.                                                                    *)
C10_OpenFailure ==
    [][ (pc = "idle" /\ pc' = "idle" /\ ret'.op = "begin" /\ i2c_dev' = "not_begun") =>
            /\ ret'.val = FALSE
            /\ ops' = << "i2c_dev->begin" >>
            /\ wire' = -1
            /\ lastStatus' = lastStatus ]_vars

(* a failed open on an object with both pins wired *)
C10_Witness ==
    /\ BeginReturned
    /\ i2c_dev = "not_begun"
    /\ _reset # -1
    /\ _eoc # -1
    /\ ~ret.val

(* the exact product a * b as << hi, lo >>, lo in 0..65535 and hi any      *)
(* integer, for |a| <= 2^24 and |b| < 2^16                                 *)
Product(a, b) ==
    LET x == (a \div 4096) * b
        y == (a % 4096) * b
        r == (x % 16) * 4096 + y
    IN  << x \div 16 + r \div Half, r % Half >>

(* the value v readPressure() returned is (p / (outputMaxCounts -          *)
(* outputMinCounts) + psiMin) * scaleFactor, p given as << hi, lo >>       *)
IsPressure(v, p) ==
    /\ ~v.nan
    /\ v.num = p
    /\ v.den = ToU32(_OUTPUT_max - _OUTPUT_min)
    /\ v.off = _PSI_min
    /\ v.K = _K

(* C5: after a begin() that made its probe status read, lastStatus is the  *)
(* byte that read returned.                                                *)
C5_BeginUpdatesLastStatus ==
    (BeginReturned /\ Did("read(1)")) => lastStatus = wire

(* C6: without an EOC pin and with a non-degenerate curve, after a         *)
(* readPressure() that returned NaN lastStatus has the busy bit set if     *)
(* the read timed out, and the math-saturation or the integrity-failed bit *)
(* set if the frame reported a fault.                                      *)
C6_LastStatusExplainsNan ==
    (PressureReturned /\ _eoc = -1 /\ _OUTPUT_min # _OUTPUT_max /\ ret.val.nan) =>
        IF Did("read(4)")
        THEN Bit(lastStatus, 1) \/ Bit(lastStatus, 4)
        ELSE Bit(lastStatus, 32)

(* C7: after any call, lastStatus is the status byte most recently         *)
(* received, by a 1-byte status read or as byte 0 of a 4-byte frame.       *)
C7_LastStatusIsLatest ==
    (pc = "idle" /\ wire # -1) => lastStatus = wire

(* C8: on a non-degenerate curve a successful read of outputMinCounts      *)
(* returns psiMin * scaleFactor and one of outputMaxCounts returns         *)
(* psiMax * scaleFactor.                                                   *)
C8_EndPoints ==
    (PressureReturned /\ ret.raw # SENTINEL /\ _OUTPUT_min # _OUTPUT_max) =>
        /\ ret.raw = ToU32(_OUTPUT_min) => IsPressure(ret.val, << 0, 0 >>)
        /\ ret.raw = ToU32(_OUTPUT_max) =>
              IsPressure(ret.val,
                         Product(_OUTPUT_max - _OUTPUT_min, _PSI_max - _PSI_min))

(* C9: on a non-degenerate curve every successful read of a count raw      *)
(* returns ((raw - outputMinCounts) * (psiMax - psiMin) / (outputMaxCounts *)
(* - outputMinCounts) + psiMin) * scaleFactor with the product signed.     *)
C9_Linear ==
    (PressureReturned /\ ret.raw # SENTINEL /\ _OUTPUT_min # _OUTPUT_max) =>
        IsPressure(ret.val,
                   Product(ret.raw[1] * Half + ret.raw[2] - _OUTPUT_min,
                           _PSI_max - _PSI_min))

(* C11: once begin() has been called, however often and whether or not the *)
(* transport opened, exactly one Adafruit_I2CDevice is alive, the one      *)
(* i2c_dev points to, made by the latest begin(); the one an earlier       *)
(* begin() made was deleted by the next begin(), no delete was given an    *)
(* object already deleted, and before any begin() none is alive.           *)
C11_OneHandle ==
    /\ ~bad_delete
    /\ IF i2c_dev = "NULL"
       THEN handle = 0 /\ heap = {}
       ELSE handle # 0 /\ heap = {handle}
    /\ BeginReturned => freed \cap heap \subseteq {handle}

(* a begin() that did not open the transport, after an earlier begin():    *)
(* it deleted the earlier object and its own took the same address         *)
C11_Witness ==
    /\ BeginReturned
    /\ i2c_dev = "not_begun"
    /\ freed = {handle}
    /\ heap = {handle}

(* C12: once the object is destroyed, no Adafruit_I2CDevice that its       *)
(* begin() made is still alive.                                            *)
C12_DestroyReleases == pc = "destroyed" => heap = {}

(* a readiness poll: a 1-byte status read or a read of the EOC pin *)
IsPoll(e) == e \in {"read(1)", "digitalRead(eoc)"}

(* readPressure() is running or has just returned *)
InReadData == pc \in {"poll", "check", "read"} \/ PressureReturned

(* the three outcomes of a readData() that returned *)
Success ==
    /\ frame # << >>
    /\ ~Bit(frame[1], 1)
    /\ ~Bit(frame[1], 4)
    /\ ret.raw # SENTINEL
    /\ ret.raw = << frame[2], frame[3] * 256 + frame[4] >>
Timeout == frame = << >> /\ ~Did("read(4)") /\ ret.raw = SENTINEL
FaultReported ==
    /\ frame # << >>
    /\ Bit(frame[1], 1) \/ Bit(frame[1], 4)
    /\ ret.raw = SENTINEL

(* C13: the calls of one readPressure()/readData() are one write of        *)
(* [0xAA, 0x00, 0x00], first; then readiness polls; then at most one       *)
(* 4-byte read, last.  The command is written once only.  The 4-byte read  *)
(* is made only when a poll has just reported ready.  The call returns     *)
(* with exactly one of Success, Timeout and FaultReported.                 *)
C13_Order ==
    /\ [](InReadData =>
            /\ Len(ops) >= 1
            /\ \A i \in 1..Len(ops) :
                  /\ (ops[i] = "write(AA,00,00)") <=> (i = 1)
                  /\ i > 1 => (IsPoll(ops[i]) \/ ops[i] = "read(4)")
                  /\ ops[i] = "read(4)" => (i = Len(ops) /\ i > 2)
            /\ Did("read(4)") <=> (frame # << >>)
            /\ PressureReturned =>
                  Cardinality({o \in {"s", "t", "f"} :
                                  \/ o = "s" /\ Success
                                  \/ o = "t" /\ Timeout
                                  \/ o = "f" /\ FaultReported}) = 1)
    /\ [][ /\ (~Did("read(4)") /\ Did("read(4)")') => pc = "read"
           /\ (pc # "read" /\ pc' = "read") =>
                 /\ pc = "poll"
                 /\ IsPoll(ops'[Len(ops')])
                 /\ _eoc = -1 => ~Bit(wire', 32) ]_vars

(* a call that polled the status byte, read the frame and reported a fault *)
C13_Witness ==
    /\ PressureReturned
    /\ ops = << "write(AA,00,00)", "read(1)", "read(4)" >>
    /\ FaultReported

(* the writes to a pin the current call made, in order *)
PinWrites ==
    SelectSeq(ops, LAMBDA e :
        e \in {"digitalWrite(reset,HIGH)", "digitalWrite(reset,LOW)"})

(* C14: a begin() on an object with a reset pin, the transport opened,     *)
(* writes the pin high, low, high and nothing else to it, calls delay(10)  *)
(* between the low and the second high, calls delay(10) again after the    *)
(* second high, and makes its one status read after that, last.  An object *)
(* without a reset pin makes no pin write in any call.                     *)
C14_ResetPulse ==
    /\ (BeginReturned /\ i2c_dev = "begun" /\ _reset # -1) =>
          /\ PinWrites = << "digitalWrite(reset,HIGH)", "digitalWrite(reset,LOW)",
                            "digitalWrite(reset,HIGH)" >>
          /\ \E lo, hi \in 1..Len(ops) :
                /\ ops[lo] = "digitalWrite(reset,LOW)"
                /\ ops[hi] = "digitalWrite(reset,HIGH)"
                /\ lo < hi
                /\ \E d \in (lo + 1)..(hi - 1) : ops[d] = "delay(10)"
                /\ \E d \in (hi + 1)..(Len(ops) - 1) : ops[d] = "delay(10)"
          /\ \A k \in 1..Len(ops) : (ops[k] = "read(1)") <=> (k = Len(ops))
    /\ _reset = -1 =>
          /\ PinWrites = << >>
          /\ ~Did("pinMode(reset,OUTPUT)")

(* a begin() that pulsed the reset pin and found the device powered *)
C14_Witness ==
    /\ BeginReturned
    /\ i2c_dev = "begun"
    /\ _reset # -1
    /\ Len(PinWrites) = 3
    /\ ret.val

C16_FrameValue ==
    /\ (ReturnedAfterFrame /\ ~Bit(frame[1], 1) /\ ~Bit(frame[1], 4)) =>
          /\ ret.raw # SENTINEL
          /\ ret.raw[1] < 256
          /\ ret.raw[1] * Half + ret.raw[2] =
                frame[2] * 65536 + frame[3] * 256 + frame[4]
          /\ ret.raw[1] * Half + ret.raw[2] \in 0..(COUNTS_224 - 1)
    /\ (PressureReturned /\ ret.raw = SENTINEL) =>
          \/ ~Did("read(4)")
          \/ Did("read(4)") /\ (Bit(frame[1], 1) \/ Bit(frame[1], 4))

(* the largest count, 0xFFFFFF, returned from a frame without fault bits *)
C16_Witness ==
    /\ ReturnedAfterFrame
    /\ frame = << MPRLS_STATUS_POWERED, 255, 255, 255 >>
    /\ ret.raw = << 255, 65535 >>

(* C17: on an object without an EOC pin, after readData() returned,        *)
(* lastStatus has the busy bit set if the return was the timeout and clear *)
(* if readData() went on to the 4-byte read.                               *)
C17_BusyBitTellsTimeout ==
    (PressureReturned /\ _eoc = -1) =>
        /\ ReturnedByTimeout => Bit(lastStatus, 32)
        /\ ReturnedAfterFrame => ~Bit(lastStatus, 32)

(* a timeout whose last poll returned powered and busy *)
C17_Witness ==
    /\ ReturnedByTimeout
    /\ _eoc = -1
    /\ lastStatus = MPRLS_STATUS_POWERED + MPRLS_STATUS_BUSY

(* C18: a call that made a bus transaction (the command write, a 1-byte    *)
(* status read or the 4-byte frame read) made it through an                *)
(* Adafruit_I2CDevice that is alive and whose begin() had succeeded.       *)
C18_HandleOpened ==
    (Did("write(AA,00,00)") \/ Did("read(1)") \/ Did("read(4)")) =>
        (i2c_dev = "begun" /\ handle \in heap)

(* C19: throughout the wait, whether or not millis() has wrapped from      *)
(* 2^32 - 1 to 0 since t was taken, millis() - t is the number of          *)
(* milliseconds that have passed, and the timeout test is true exactly     *)
(* when more than MPRLS_READ_TIMEOUT of them have.                         *)
C19_WrapSafe ==
    pc \in {"poll", "check"} =>
        /\ U32Sub(now, t) = ToU32(elapsed)
        /\ TimedOut <=> (elapsed > MPRLS_READ_TIMEOUT)

(* the timeout test true 21 ms after a t taken 10 ms before the wrap *)
C19_Witness ==
    /\ pc = "check"
    /\ t = << 65535, 65526 >>
    /\ now = << 0, 11 >>
    /\ elapsed = MPRLS_READ_TIMEOUT + 1
    /\ TimedOut

(* C20: before any call the object has made no call to a collaborator,    *)
(* and outputMinCounts and outputMaxCounts are each the integer nearest to *)
(* 2^24 * percent / 100, a half rounded up: n with n <= 2^24 * percent /   *)
(* 100 + 1/2 < n + 1, written with 2^24 = 16777 * 1000 + 216 and the       *)
(* percentage in tenths.  For 10 and 90 they are 1677722 and 15099494.     *)
C20_Construction ==
    /\ (pc = "idle" /\ ret = NoRet) => (ops = << >> /\ wire = -1 /\ heap = {})
    /\ \A i \in {1, 2} :
          LET tenths == curve_args[i]
              n == IF i = 1 THEN _OUTPUT_min ELSE _OUTPUT_max
              d == n - 16777 * tenths
          IN  /\ 1000 * d <= 216 * tenths + 500
              /\ 216 * tenths + 500 < 1000 * (d + 1)
    /\ curve_args = << 100, 900 >> =>
          (_OUTPUT_min = 1677722 /\ _OUTPUT_max = 15099494)

====
